---- MODULE Spec2Model ----
(***************************************************************************)
(* Community feed store of app/community.tsx (the FIREBASE STUB LAYER):    *)
(* the module-level arrays _stubPosts and _stubComments and the store      *)
(* operations createPost, toggleReaction and addComment that mutate them.  *)
(* Every store operation is an async function without an await in its      *)
(* body, so each call runs to completion as one atomic step.               *)
(*                                                                         *)
(* Spec        the store operations called with any arguments              *)
(* ReactSpec   createPost and toggleReaction with the callers' promises:   *)
(*             calls issued while an earlier promise is unresolved         *)
(* ScreenSpec  CommunityScreen, CreatePostModal and CommentSheet driving   *)
(*             the store: event handlers and their continuations           *)
(* LiveScreenSpec  ScreenSpec with the continuations always run            *)
(*                                                                         *)
(* Login, signup and profile screens of app/loginpg.tsx over the Firestore *)
(* users collection and each device's AsyncStorage:                        *)
(*                                                                         *)
(* AuthSpec    emailLogin, registerUser, googleLogin, logout and the       *)
(*             profile screen's fetchUserPosts on two devices              *)
(*                                                                         *)
(* Crop recommendation screen of app/croppred.tsx:                         *)
(*                                                                         *)
(* CropSpec    the form, the "Using Default Values" dialog, the prediction *)
(*             requests in flight and the prediction history               *)
(*                                                                         *)
(* Home screen of index.tsx:                                               *)
(*                                                                         *)
(* HomeSpec    initializeLocation and its 15-second timer, the location    *)
(*             modal, the weather requests and the Crop Prediction card    *)
(* LiveHomeSpec  HomeSpec in which the timer fires and AsyncStorage        *)
(*             answers; a permission request, a position fix or a fetch    *)
(*             may stay pending for ever                                   *)
(***************************************************************************)
EXTENDS Integers, Sequences, FiniteSets, TLC

\* ---------------------------------------------------------------- bounds
MaxClock == 2      \* Date.now() takes the readings 1..MaxClock
MaxCalls == 4      \* store operations called in one run
MaxUsers == 2      \* documents in the Firestore users collection
MaxPredictions == 2  \* prediction requests started in one run
MaxPresses == 2    \* district choices, Detect presses and remounts of Home

\* ------------------------------------------------------------ constants
MinPasswordLength == 6   \* handleSignup: password.length < 6 is rejected
MinPh == 0               \* validateForm: formData.ph < 0 is rejected
MaxPh == 14              \* validateForm: formData.ph > 14 is rejected
MeanN == 100             \* MEAN_VALUES.N
MeanP == 40              \* MEAN_VALUES.P
MeanK == 50              \* MEAN_VALUES.K

\* ---------------------------------------------------------------- inputs
Users == {"u1", "u2"}
Reactions == {"like", "dislike"}
\* comment texts as character sequences: whitespace-only and non-empty ones
Texts == {<<" ", " ">>, <<" ", "a">>}
Null == <<"null">>
Undefined == <<"undefined">>

\* `post_${Date.now()}` and `cmt_${Date.now()}`: the prefix and the reading
PostId(t) == <<"post_", t>>
CmtId(t) == <<"cmt_", t>>
\* the ids a caller may pass: the id of every clock reading, whether or not
\* a post was created at that reading
PostIdArgs == {PostId(t) : t \in 1..MaxClock}
\* the user whose comment sheet sends comments
Commenters == {"u1"}

\* ------------------------------------------- login and signup: inputs
\* the devices the app runs on
Clients == {"c1", "c2"}
\* the device whose login, logout and profile screens are followed; the other
\* device is one on which somebody signs up
Followed == {"c1"}
\* what is typed into the email field, as character sequences
Emails == {<<" ", "A">>, <<"b">>}
\* what is typed into the password field of the login screen
Passwords == {"secret1", "secret2"}
\* what is typed into the password field of the signup screen
NewPasswords == {"secret1", "secret2", "pw"}
\* what is typed into the name field
Names == {<<"N", " ">>}
\* result.user of signInWithPopup: one account, its display name as it is
\* at the time of the sign-in
GoogleProfiles ==
    {[uid |-> <<"uid", 1>>, displayName |-> <<"G">>, email |-> <<"A">>],
     [uid |-> <<"uid", 1>>, displayName |-> <<"G", " ", "K">>,
      email |-> <<"A">>]}
\* what the posts query of fetchUserPosts finds for a user
PostDocs(userId) ==
    {<<>>,
     <<[id |-> "p1", authorId |-> userId, title |-> "Rain advice",
        createdAt |-> 1]>>}

\* String.prototype.toLowerCase on the letters used here
ToLowerCase(str) ==
    [i \in DOMAIN str |-> IF str[i] = "A" THEN "a"
                          ELSE IF str[i] = "B" THEN "b" ELSE str[i]]
\* AsyncStorage holds the keys that were set: none at first
EmptyStorage == [k \in {} |-> ""]
NoTask == [op |-> "none", step |-> "none", name |-> Null, email |-> Null,
           password |-> Null]
Task(op, step, name, email, password) ==
    [op |-> op, step |-> step, name |-> name, email |-> email,
     password |-> password]
NoAuth ==
    [op |-> "none", client |-> Null, email |-> Null, password |-> Null,
     outcome |-> "none", value |-> Null,
     users |-> <<>>, storage |-> EmptyStorage]

\* ------------------------------------------- crop recommendation: inputs
\* JavaScript numbers, null and NaN as form values
Num(n) == <<"num", n>>
NaN == <<"NaN">>
Nutrients == {"N", "P", "K"}
\* what is typed into a field, as character sequences: into N, P or K
NutrientTexts == {<<>>, <<"7">>}
\* and into ph
PhTexts == {<<>>, <<"7">>, <<"1", "5">>, <<"-", "1">>, <<".">>}
\* the initial formData and the one handleReset sets
EmptyForm == [N |-> Null, P |-> Null, K |-> Null, ph |-> Null]
NoDialog == [shown |-> FALSE, formData |-> EmptyForm, history |-> <<>>]
NoPress == [found |-> "none", phInRange |-> FALSE, choice |-> "none",
            requests |-> 0]

\* ------------------------------------------------- home screen: inputs
\* KERALA_RAINFALL_DATA, the figures as the source writes them
KERALA_RAINFALL_DATA ==
    [Thiruvananthapuram |-> "538", Kollam |-> "424",
     Pathanamthitta |-> "518", Alappuzha |-> "464.3", Kottayam |-> "549.6",
     Idukki |-> "413.4", Ernakulam |-> "466.4", Thrissur |-> "371.5",
     Palakkad |-> "281.4", Malappuram |-> "306.4", Kozhikode |-> "347.4",
     Wayanad |-> "253.5", Kannur |-> "311.4", Kasaragod |-> "304.5"]
\* the rows of KERALA_DISTRICTS pressed in the location modal
ManualDistricts == {"Wayanad", "Kollam"}
\* data.address of the reverse-geocoding answers; "" is an absent field
Addresses == {[county |-> "Ernakulam", state_district |-> "", state |-> "Kerala"],
              [county |-> "", state_district |-> "", state |-> ""]}
\* LocationData without its coordinates; NoLocation is null
Loc(district, state, isManual) ==
    [district |-> district, state |-> state, isManual |-> isManual]
NoLocation == Loc("", "", FALSE)
\* WeatherData; NoWeather is null
NoWeather == [temp |-> "", humidity |-> "", rainfall |-> ""]
\* the params of router.push("/croppred"); NoParams before any push
NoParams == [temperature |-> "", humidity |-> "", rainfall |-> "",
             district |-> ""]
\* a promise a function of HomeScreen is suspended on: the awaited step, the
\* function that awaits (kind) and the loc it goes on with
Awaiting(step, kind, loc) == [step |-> step, kind |-> kind, loc |-> loc]

VARIABLES
    stubPosts,     \* _stubPosts: the posts array, newest first
    stubComments,  \* _stubComments: postId -> comments array, keys as added
    now,           \* the reading Date.now() returns
    calls,         \* number of store operations called so far
    lastCall,      \* the last store call: its arguments and how it settled
    prevCall,      \* the store call before lastCall
    before,        \* the store as it was when lastCall was issued
    before2,       \* the store as it was when prevCall was issued
    unresolved,    \* ReactSpec: promises of toggleReaction not yet resolved
    overlapped,    \* ReactSpec: lastCall was issued while one was unresolved
    screenPosts,   \* CommunityScreen state posts: the last setPosts(data)
    loading,       \* CommunityScreen state loading
    refreshing,    \* CommunityScreen state refreshing
    commentPostId, \* CommunityScreen state commentPostId
    sheetComments, \* CommentSheet state comments: the last setComments(data)
    sheetLoading,  \* CommentSheet state loading
    sending,       \* CommentSheet state sending
    micro,         \* continuations of the running handlers, in queue order
    users,         \* Firestore users collection, in document-name order
    storage,       \* AsyncStorage of each device: userLoggedIn, userData
    route,         \* the screen each device shows: "login" or "home"
    pending,       \* the request each device is awaiting, if any
    profile,       \* ProfileScreen state of each device: myPosts, postsLoading
    lastAuth,      \* the last request that completed and what it found
    formData,      \* CropPredictionScreen state formData: N, P, K, ph
    cropLoading,   \* CropPredictionScreen state loading
    submitted,     \* CropPredictionScreen state submitted
    history,       \* CropPredictionScreen state history
    historyLoaded, \* loadHistory of the current mount has completed
    dialog,        \* the "Using Default Values" alert and what its Continue
                   \* button closes over, when it is shown
    inFlight,      \* prediction requests awaiting fetch, each with the
                   \* formData and history its performAPICall closes over
    stored,        \* AsyncStorage item cropPredictionHistory, as parsed
    started,       \* number of prediction requests started so far
    expected,      \* ids of the predictions saved and not since deleted or
                   \* cleared, newest first
    lastPress,     \* the last press of Get Recommendation: what validateForm
                   \* found, the dialog choice, the requests it started
    location,      \* HomeScreen state location
    userLocation,  \* AsyncStorage item userLocation, as parsed
    locationLoading,   \* HomeScreen state locationLoading
    weather,       \* HomeScreen state weather
    weatherLoading,    \* HomeScreen state loading
    showLocationModal, \* HomeScreen state showLocationModal
    locationTimeout,   \* the timer behind locationTimeoutRef: "armed",
                   \* "cleared" or "fired"
    awaited,       \* the promises the functions of HomeScreen await, in the
                   \* order they were made
    cropParams,    \* the params of the last router.push("/croppred")
    selected,      \* the district of the selectManualLocation that completed
                   \* with no district or Detect press since, "" if none
    homePresses    \* district choices, Detect presses and remounts so far
storeVars == <<stubPosts, stubComments, now, calls, lastCall, prevCall,
               before, before2>>
reactVars == <<unresolved, overlapped>>
screenVars == <<screenPosts, loading, refreshing, commentPostId, sheetComments,
                sheetLoading, sending, micro>>
authVars == <<users, storage, route, pending, profile, lastAuth>>
\* the variables of the screens other than the community screen
cropVars == <<formData, cropLoading, submitted, history, historyLoaded,
              dialog, inFlight, stored, started, expected, lastPress>>
homeVars == <<location, userLocation, locationLoading, weather,
              weatherLoading, showLocationModal, locationTimeout, awaited,
              cropParams, selected, homePresses>>
otherScreens == <<authVars, cropVars, homeVars>>
vars == <<stubPosts, stubComments, now, calls, lastCall, prevCall, before,
          before2, unresolved, overlapped, screenPosts, loading, refreshing,
          commentPostId, sheetComments, sheetLoading, sending, micro,
          users, storage, route, pending, profile, lastAuth,
          formData, cropLoading, submitted, history, historyLoaded, dialog,
          inFlight, stored, started, expected, lastPress,
          location, userLocation, locationLoading, weather, weatherLoading,
          showLocationModal, locationTimeout, awaited, cropParams, selected,
          homePresses>>

\* ------------------------------------------------------- array helpers
\* Array.prototype.includes
Includes(arr, x) == \E i \in DOMAIN arr : arr[i] = x
\* Array.prototype.filter((id) => id !== userId)
Without(arr, x) == SelectSeq(arr, LAMBDA e : e # x)
\* mutant of DecFloor: Math.max(0, n), the decrement left out
DecFloorNoDecrement(n) == IF n > 0 THEN n ELSE 0
\* Math.max(0, n - 1)
DecFloor(n) == IF n - 1 > 0 THEN n - 1 ELSE 0
\* Array.prototype.find: index of the first post with this id, 0 if none
FindIndex(posts, postId) ==
    IF \E i \in DOMAIN posts : posts[i].id = postId
    THEN CHOOSE i \in DOMAIN posts :
            /\ posts[i].id = postId
            /\ \A j \in DOMAIN posts : posts[j].id = postId => i <= j
    ELSE 0
\* String.prototype.trim on a character sequence
RECURSIVE TrimStart(_)
TrimStart(s) == IF s # <<>> /\ Head(s) = " " THEN TrimStart(Tail(s)) ELSE s
RECURSIVE TrimEnd(_)
TrimEnd(s) ==
    IF s # <<>> /\ s[Len(s)] = " " THEN TrimEnd(SubSeq(s, 1, Len(s) - 1)) ELSE s
Trim(s) == TrimEnd(TrimStart(s))

\* ------------------------------------------------------------ the store
\* mutant of Draft: the author's own like is stored with the new post
DraftWithAuthorLike(authorId, createdAt) ==
    [authorId |-> authorId, authorName |-> <<"name of", authorId>>,
     title |-> "Rain advice", description |-> "",
     mediaUrl |-> Null, mediaType |-> Null,
     likeCount |-> 1, dislikeCount |-> 0,
     likedBy |-> <<authorId>>, dislikedBy |-> <<>>,
     commentCount |-> 0, createdAt |-> createdAt]

\* the object CreatePostModal.submit passes to createPost
Draft(authorId, createdAt) ==
    [authorId |-> authorId, authorName |-> <<"name of", authorId>>,
     title |-> "Rain advice", description |-> "",
     mediaUrl |-> Null, mediaType |-> Null,
     likeCount |-> 0, dislikeCount |-> 0,
     likedBy |-> <<>>, dislikedBy |-> <<>>,
     commentCount |-> 0, createdAt |-> createdAt]

\* { ...post, id }
WithId(post, id) ==
    [id |-> id, authorId |-> post.authorId, authorName |-> post.authorName,
     title |-> post.title, description |-> post.description,
     mediaUrl |-> post.mediaUrl, mediaType |-> post.mediaType,
     likeCount |-> post.likeCount, dislikeCount |-> post.dislikeCount,
     likedBy |-> post.likedBy, dislikedBy |-> post.dislikedBy,
     commentCount |-> post.commentCount, createdAt |-> post.createdAt]

\* a call of an async store function and the settlement of its promise; no
\* store function throws, so every promise is fulfilled
Call(op, postId, userId, reaction, text, value) ==
    [op |-> op, postId |-> postId, userId |-> userId, reaction |-> reaction,
     text |-> text, settled |-> "fulfilled", value |-> value]
NoCall == Call("none", Null, Null, Null, Null, Undefined)
Store == [posts |-> stubPosts, comments |-> stubComments]
\* bookkeeping of every store call
Record(call) ==
    /\ calls < MaxCalls
    /\ calls' = calls + 1
    /\ lastCall' = call
    /\ prevCall' = lastCall
    /\ before' = Store
    /\ before2' = before

\* mutant of TogglePost: the user is not removed from the opposite array
TogglePostKeepsOther(post, userId, reaction) ==
    LET byKey == reaction \o "dBy"
        countKey == reaction \o "Count"
    IN  IF Includes(post[byKey], userId)
        THEN [post EXCEPT ![byKey] = Without(post[byKey], userId),
                          ![countKey] = DecFloor(post[countKey])]
        ELSE [post EXCEPT ![byKey] = Append(post[byKey], userId),
                          ![countKey] = post[countKey] + 1]

\* mutant of TogglePost: un-reacting removes the user and keeps the count
TogglePostKeepsCount(post, userId, reaction) ==
    LET other == IF reaction = "like" THEN "dislike" ELSE "like"
        byKey == reaction \o "dBy"
        otherKey == other \o "dBy"
        countKey == reaction \o "Count"
        otherCountKey == other \o "Count"
    IN  IF Includes(post[byKey], userId)
        THEN [post EXCEPT ![byKey] = Without(post[byKey], userId)]
        ELSE LET added == [post EXCEPT ![byKey] = Append(post[byKey], userId),
                                       ![countKey] = post[countKey] + 1]
             IN  IF Includes(added[otherKey], userId)
                 THEN [added EXCEPT
                         ![otherKey] = Without(added[otherKey], userId),
                         ![otherCountKey] = DecFloor(added[otherCountKey])]
                 ELSE added

\* mutant of TogglePost: un-reacting lowers the count and keeps the user
TogglePostKeepsUser(post, userId, reaction) ==
    LET other == IF reaction = "like" THEN "dislike" ELSE "like"
        byKey == reaction \o "dBy"
        otherKey == other \o "dBy"
        countKey == reaction \o "Count"
        otherCountKey == other \o "Count"
    IN  IF Includes(post[byKey], userId)
        THEN [post EXCEPT ![countKey] = DecFloor(post[countKey])]
        ELSE LET added == [post EXCEPT ![byKey] = Append(post[byKey], userId),
                                       ![countKey] = post[countKey] + 1]
             IN  IF Includes(added[otherKey], userId)
                 THEN [added EXCEPT
                         ![otherKey] = Without(added[otherKey], userId),
                         ![otherCountKey] = DecFloor(added[otherCountKey])]
                 ELSE added

\* mutant of TogglePost: the toggle also stamps the post with a new time
TogglePostStampsCreatedAt(post, userId, reaction) ==
    LET other == IF reaction = "like" THEN "dislike" ELSE "like"
        byKey == reaction \o "dBy"
        otherKey == other \o "dBy"
        countKey == reaction \o "Count"
        otherCountKey == other \o "Count"
    IN  IF Includes(post[byKey], userId)
        THEN [post EXCEPT ![byKey] = Without(post[byKey], userId),
                          ![countKey] = DecFloor(post[countKey]),
                          !.createdAt = post.createdAt + 1]
        ELSE LET added == [post EXCEPT ![byKey] = Append(post[byKey], userId),
                                       ![countKey] = post[countKey] + 1,
                                       !.createdAt = post.createdAt + 1]
             IN  IF Includes(added[otherKey], userId)
                 THEN [added EXCEPT
                         ![otherKey] = Without(added[otherKey], userId),
                         ![otherCountKey] = DecFloor(added[otherCountKey])]
                 ELSE added

\* mutant of TogglePost: the count key is commentCount, not the reaction's
TogglePostCountsComment(post, userId, reaction) ==
    LET other == IF reaction = "like" THEN "dislike" ELSE "like"
        byKey == reaction \o "dBy"
        otherKey == other \o "dBy"
        countKey == "commentCount"
        otherCountKey == other \o "Count"
    IN  IF Includes(post[byKey], userId)
        THEN [post EXCEPT ![byKey] = Without(post[byKey], userId),
                          ![countKey] = DecFloor(post[countKey])]
        ELSE LET added == [post EXCEPT ![byKey] = Append(post[byKey], userId),
                                       ![countKey] = post[countKey] + 1]
             IN  IF Includes(added[otherKey], userId)
                 THEN [added EXCEPT
                         ![otherKey] = Without(added[otherKey], userId),
                         ![otherCountKey] = DecFloor(added[otherCountKey])]
                 ELSE added

\* the body of toggleReaction once the post is located: the field names
\* are computed from the reaction, as in the source
TogglePost(post, userId, reaction) ==
    LET other == IF reaction = "like" THEN "dislike" ELSE "like"
        byKey == reaction \o "dBy"
        otherKey == other \o "dBy"
        countKey == reaction \o "Count"
        otherCountKey == other \o "Count"
    IN  IF Includes(post[byKey], userId)
        THEN [post EXCEPT ![byKey] = Without(post[byKey], userId),
                          ![countKey] = DecFloor(post[countKey])]
        ELSE LET added == [post EXCEPT ![byKey] = Append(post[byKey], userId),
                                       ![countKey] = post[countKey] + 1]
             IN  IF Includes(added[otherKey], userId)
                 THEN [added EXCEPT
                         ![otherKey] = Without(added[otherKey], userId),
                         ![otherCountKey] = DecFloor(added[otherCountKey])]
                 ELSE added

\* mutant of ToggledPosts: read-modify-write on the post as it was read
\* before the previous call committed, so that call's update is lost
ToggledPostsLostUpdate(posts, postId, userId, reaction) ==
    LET i == FindIndex(posts, postId) IN
    IF i = 0 THEN posts
    ELSE LET read == IF Len(before.posts) = Len(posts)
                     THEN before.posts[i] ELSE posts[i]
         IN [posts EXCEPT ![i] = TogglePost(read, userId, reaction)]

\* the posts array after toggleReaction(postId, userId, reaction)
ToggledPosts(posts, postId, userId, reaction) ==
    LET i == FindIndex(posts, postId) IN
    IF i = 0 THEN posts
    ELSE [posts EXCEPT ![i] = TogglePost(posts[i], userId, reaction)]

\* _stubComments[postId] || []
CommentsOf(comments, postId) ==
    IF postId \in DOMAIN comments THEN comments[postId] ELSE <<>>

\* what fetchPosts resolved with: the posts of the result, in order, each as
\* a reference to the stored post object (its creation number: the copy
\* [..._stubPosts] is shallow), and the posts array the call read
PostsResult(refs, store) == [refs |-> refs, store |-> store]
\* what fetchComments resolved with, and the comments map the call read
CommentsResult(op, postId, value, store) ==
    [op |-> op, postId |-> postId, value |-> value, store |-> store]
\* a continuation waiting in the microtask queue
Continuation(k, data, then) == [k |-> k, data |-> data, then |-> then]

Init ==
    /\ unresolved = 0
    /\ overlapped = FALSE
    /\ screenPosts = PostsResult(<<>>, <<>>)
    /\ loading = TRUE
    /\ refreshing = FALSE
    /\ commentPostId = Null
    /\ sheetComments = CommentsResult("none", Null, <<>>, <<>>)
    /\ sheetLoading = FALSE
    /\ sending = FALSE
    /\ micro = <<Continuation("mountEffect", Null, "none")>>
    /\ stubPosts = <<>>
    /\ stubComments = <<>>
    /\ now = 1
    /\ calls = 0
    /\ lastCall = NoCall
    /\ prevCall = NoCall
    /\ before = Store
    /\ before2 = Store
    /\ users = <<>>
    /\ storage = [c \in Clients |-> EmptyStorage]
    /\ route = [c \in Clients |-> "login"]
    /\ pending = [c \in Clients |-> NoTask]
    /\ profile = [c \in Clients |-> [myPosts |-> <<>>, postsLoading |-> FALSE]]
    /\ lastAuth = NoAuth
    /\ formData = EmptyForm
    /\ cropLoading = FALSE
    /\ submitted = FALSE
    /\ history = <<>>
    /\ historyLoaded = FALSE
    /\ dialog = NoDialog
    /\ inFlight = <<>>
    /\ stored = <<>>
    /\ started = 0
    /\ expected = <<>>
    /\ lastPress = NoPress
    \* HomeScreen as mounted: the effect has called initializeLocation, which
    \* armed the timer and awaits AsyncStorage.getItem("userLocation")
    /\ location = NoLocation
    /\ userLocation = NoLocation
    /\ locationLoading = TRUE
    /\ weather = NoWeather
    /\ weatherLoading = TRUE
    /\ showLocationModal = FALSE
    /\ locationTimeout = "armed"
    /\ awaited = <<Awaiting("getItem", "initialize", NoLocation)>>
    /\ cropParams = NoParams
    /\ selected = ""
    /\ homePresses = 0

\* the millisecond clock behind Date.now() advances between calls
Tick ==
    /\ now < MaxClock
    /\ now' = now + 1
    /\ UNCHANGED <<stubPosts, stubComments, calls, lastCall, prevCall,
                   before, before2>>

createPost(post) ==
    /\ LET id == PostId(now) IN
        /\ stubPosts' = <<WithId(post, id)>> \o stubPosts
        /\ Record(Call("createPost", Null, post.authorId, Null, Null, id))
    /\ UNCHANGED <<stubComments, now>>

toggleReaction(postId, userId, reaction) ==
    /\ stubPosts' = ToggledPosts(stubPosts, postId, userId, reaction)
    /\ Record(Call("toggleReaction", postId, userId, reaction, Null, Undefined))
    /\ UNCHANGED <<stubComments, now>>

\* the object CommentSheet.send passes to addComment
CommentDraft(authorId, text, createdAt) ==
    [authorId |-> authorId, authorName |-> <<"name of", authorId>>,
     text |-> text, createdAt |-> createdAt]

\* { ...comment, id }
CommentWithId(comment, id) ==
    [id |-> id, authorId |-> comment.authorId,
     authorName |-> comment.authorName, text |-> comment.text,
     createdAt |-> comment.createdAt]

addComment(postId, comment) ==
    /\ LET id == CmtId(now)
           log == Append(CommentsOf(stubComments, postId),
                         CommentWithId(comment, id))
           i == FindIndex(stubPosts, postId)
       IN /\ stubComments' = (postId :> log) @@ stubComments
          /\ stubPosts' = IF i = 0 THEN stubPosts
                          ELSE [stubPosts EXCEPT ![i].commentCount = Len(log)]
    /\ Record(Call("addComment", postId, comment.authorId, Null, comment.text,
                   Undefined))
    /\ UNCHANGED now

\* mutant of InsertByCreatedAt: b.createdAt - a.createdAt, descending
RECURSIVE InsertByCreatedAtDescending(_, _)
InsertByCreatedAtDescending(sorted, c) ==
    IF sorted = <<>> THEN <<c>>
    ELSE IF sorted[Len(sorted)].createdAt >= c.createdAt THEN Append(sorted, c)
    ELSE Append(InsertByCreatedAtDescending(
                    SubSeq(sorted, 1, Len(sorted) - 1), c),
                sorted[Len(sorted)])

\* Array.prototype.sort((a, b) => a.createdAt - b.createdAt): stable, ascending
RECURSIVE InsertByCreatedAt(_, _)
InsertByCreatedAt(sorted, c) ==
    IF sorted = <<>> THEN <<c>>
    ELSE IF sorted[Len(sorted)].createdAt <= c.createdAt THEN Append(sorted, c)
    ELSE Append(InsertByCreatedAt(SubSeq(sorted, 1, Len(sorted) - 1), c),
                sorted[Len(sorted)])
RECURSIVE SortByCreatedAt(_)
SortByCreatedAt(arr) ==
    IF arr = <<>> THEN <<>>
    ELSE InsertByCreatedAt(SortByCreatedAt(SubSeq(arr, 1, Len(arr) - 1)),
                           arr[Len(arr)])

\* the sequence fetchComments(postId) resolves with
fetchComments(comments, postId) == SortByCreatedAt(CommentsOf(comments, postId))

\* --------------------------------------------------------- feed reads
\* the stored post object with creation number k: createPost only ever
\* unshifts, so the k-th post created is the k-th from the end of the array
Deref(arr, k) == arr[Len(arr) - k + 1]
\* mutant of ComparePosts: a.createdAt - b.createdAt, ascending
ComparePostsAscending(a, b) == a.createdAt - b.createdAt
\* the comparator of fetchPosts: (a, b) => b.createdAt - a.createdAt
ComparePosts(a, b) == b.createdAt - a.createdAt
\* Array.prototype.sort with ComparePosts on references: stable
RECURSIVE InsertPostRef(_, _, _)
InsertPostRef(arr, sorted, k) ==
    IF sorted = <<>> THEN <<k>>
    ELSE IF ComparePosts(Deref(arr, sorted[Len(sorted)]), Deref(arr, k)) <= 0
         THEN Append(sorted, k)
         ELSE Append(InsertPostRef(arr, SubSeq(sorted, 1, Len(sorted) - 1), k),
                     sorted[Len(sorted)])
RECURSIVE SortPostRefs(_, _)
SortPostRefs(arr, refs) ==
    IF refs = <<>> THEN <<>>
    ELSE InsertPostRef(arr, SortPostRefs(arr, SubSeq(refs, 1, Len(refs) - 1)),
                       refs[Len(refs)])
\* fetchPosts(): [..._stubPosts] copies the array, not the post objects
fetchPosts(arr) ==
    PostsResult(SortPostRefs(arr, [i \in 1..Len(arr) |-> Len(arr) - i + 1]),
                arr)

\* fetchComments sorts _stubComments[postId] in place and returns that array
SortedInPlace(comments, postId) ==
    IF postId \in DOMAIN comments
    THEN [comments EXCEPT ![postId] = SortByCreatedAt(comments[postId])]
    ELSE comments

\* ------------------------------------------------- the community screen
\* Every await of the handlers is on a promise of a stub function, which is
\* already settled: the continuation runs as a microtask, before the next
\* user event is delivered. Events are taken while the queue is empty.
ScreenUser == "u1"
Idle == micro = <<>>
Running(k) == micro # <<>> /\ Head(micro).k = k
\* the ids of the posts the FlatList shows
ShownIds ==
    IF loading THEN {}
    ELSE {Deref(stubPosts, screenPosts.refs[i]).id :
            i \in DOMAIN screenPosts.refs}
\* postId={commentPostId || ""}
SheetPostId == IF commentPostId = Null THEN <<"">> ELSE commentPostId

\* useEffect(() => { loadUser(); loadPosts(); }, []) and loadPosts up to
\* its await
MountEffect ==
    /\ Running("mountEffect")
    /\ loading' = TRUE
    /\ micro' = Append(Tail(micro),
                       Continuation("loadPosts", fetchPosts(stubPosts), "none"))
    /\ UNCHANGED <<screenPosts, refreshing, commentPostId, sheetComments,
                   sheetLoading, sending>>
    /\ UNCHANGED <<storeVars, reactVars, otherScreens>>

\* mutant of LoadPostsDone: setLoading(false) left out
LoadPostsDoneKeepsLoading ==
    /\ Running("loadPosts")
    /\ screenPosts' = Head(micro).data
    /\ micro' = Tail(micro)
    /\ UNCHANGED <<loading, refreshing, commentPostId, sheetComments,
                   sheetLoading, sending>>
    /\ UNCHANGED <<storeVars, reactVars, otherScreens>>

\* loadPosts after its await: setPosts(data); setLoading(false)
LoadPostsDone ==
    /\ Running("loadPosts")
    /\ screenPosts' = Head(micro).data
    /\ loading' = FALSE
    /\ micro' = Tail(micro)
    /\ UNCHANGED <<refreshing, commentPostId, sheetComments, sheetLoading,
                   sending>>
    /\ UNCHANGED <<storeVars, reactVars, otherScreens>>

\* onRefresh up to its await
OnRefresh ==
    /\ Idle /\ ~loading
    /\ refreshing' = TRUE
    /\ micro' = <<Continuation("onRefresh", fetchPosts(stubPosts), "none")>>
    /\ UNCHANGED <<screenPosts, loading, commentPostId, sheetComments,
                   sheetLoading, sending>>
    /\ UNCHANGED <<storeVars, reactVars, otherScreens>>

\* onRefresh after its await: setPosts(data); setRefreshing(false)
OnRefreshDone ==
    /\ Running("onRefresh")
    /\ screenPosts' = Head(micro).data
    /\ refreshing' = FALSE
    /\ micro' = Tail(micro)
    /\ UNCHANGED <<loading, commentPostId, sheetComments, sheetLoading,
                   sending>>
    /\ UNCHANGED <<storeVars, reactVars, otherScreens>>

\* handleReact up to its first await: toggleReaction runs when called
HandleReact(postId, reaction) ==
    /\ Idle /\ postId \in ShownIds
    /\ toggleReaction(postId, ScreenUser, reaction)
    /\ micro' = <<Continuation("handleReact", Null, "none")>>
    /\ UNCHANGED <<screenPosts, loading, refreshing, commentPostId,
                   sheetComments, sheetLoading, sending>>
    /\ UNCHANGED <<reactVars, otherScreens>>

\* handleReact between its awaits: const updated = await fetchPosts()
HandleReactFetch ==
    /\ Running("handleReact")
    /\ micro' = Append(Tail(micro),
                       Continuation("setPosts", fetchPosts(stubPosts), "none"))
    /\ UNCHANGED <<screenPosts, loading, refreshing, commentPostId,
                   sheetComments, sheetLoading, sending>>
    /\ UNCHANGED <<storeVars, reactVars, otherScreens>>

\* handleReact after its second await: setPosts(updated)
HandleReactDone ==
    /\ Running("setPosts")
    /\ screenPosts' = Head(micro).data
    /\ micro' = Tail(micro)
    /\ UNCHANGED <<loading, refreshing, commentPostId, sheetComments,
                   sheetLoading, sending>>
    /\ UNCHANGED <<storeVars, reactVars, otherScreens>>

\* CreatePostModal.submit up to its await (no media picked): createPost runs
\* when called
Submit ==
    /\ Idle
    /\ createPost(Draft(ScreenUser, now))
    /\ micro' = <<Continuation("submit", Null, "none")>>
    /\ UNCHANGED <<screenPosts, loading, refreshing, commentPostId,
                   sheetComments, sheetLoading, sending>>
    /\ UNCHANGED <<reactVars, otherScreens>>

\* submit after its await: onCreated() is loadPosts, run up to its await
SubmitCreated ==
    /\ Running("submit")
    /\ loading' = TRUE
    /\ micro' = Append(Tail(micro),
                       Continuation("loadPosts", fetchPosts(stubPosts), "none"))
    /\ UNCHANGED <<screenPosts, refreshing, commentPostId, sheetComments,
                   sheetLoading, sending>>
    /\ UNCHANGED <<storeVars, reactVars, otherScreens>>

\* handleComment: setCommentPostId(postId); the sheet becomes visible and its
\* effect calls load
HandleComment(postId) ==
    /\ Idle /\ postId \in ShownIds /\ commentPostId = Null
    /\ commentPostId' = postId
    /\ micro' = <<Continuation("load", Null, "none")>>
    /\ UNCHANGED <<screenPosts, loading, refreshing, sheetComments,
                   sheetLoading, sending>>
    /\ UNCHANGED <<storeVars, reactVars, otherScreens>>

\* CommentSheet.load up to its await: fetchComments runs when called
Load ==
    /\ Running("load")
    /\ sheetLoading' = TRUE
    /\ stubComments' = SortedInPlace(stubComments, SheetPostId)
    /\ micro' = Append(Tail(micro),
         Continuation("setComments",
                      CommentsResult("fetchComments", SheetPostId,
                                     fetchComments(stubComments, SheetPostId),
                                     stubComments),
                      Head(micro).then))
    /\ UNCHANGED <<screenPosts, loading, refreshing, commentPostId,
                   sheetComments, sending>>
    /\ UNCHANGED <<stubPosts, now, calls, lastCall, prevCall, before, before2>>
    /\ UNCHANGED <<reactVars, otherScreens>>

\* load after its await: setComments(data); setLoading(false); a send that
\* awaits this load continues afterwards
LoadDone ==
    /\ Running("setComments")
    /\ sheetComments' = Head(micro).data
    /\ sheetLoading' = FALSE
    /\ micro' = IF Head(micro).then = "none" THEN Tail(micro)
                ELSE Append(Tail(micro),
                            Continuation(Head(micro).then, Null, "none"))
    /\ UNCHANGED <<screenPosts, loading, refreshing, commentPostId, sending>>
    /\ UNCHANGED <<storeVars, reactVars, otherScreens>>

\* CommentSheet.send up to its await: the guard on text.trim(), then
\* addComment runs when called; load() follows the await
Send(text) ==
    /\ Idle /\ commentPostId # Null
    /\ Trim(text) # <<>>
    /\ sending' = TRUE
    /\ addComment(SheetPostId, CommentDraft(ScreenUser, Trim(text), now))
    /\ micro' = <<Continuation("load", Null, "send")>>
    /\ UNCHANGED <<screenPosts, loading, refreshing, commentPostId,
                   sheetComments, sheetLoading>>
    /\ UNCHANGED <<reactVars, otherScreens>>

\* send after await load(): setSending(false)
SendDone ==
    /\ Running("send")
    /\ sending' = FALSE
    /\ micro' = Tail(micro)
    /\ UNCHANGED <<screenPosts, loading, refreshing, commentPostId,
                   sheetComments, sheetLoading>>
    /\ UNCHANGED <<storeVars, reactVars, otherScreens>>

\* onClose of the sheet: setCommentPostId(null)
OnClose ==
    /\ Idle /\ commentPostId # Null
    /\ commentPostId' = Null
    /\ UNCHANGED <<screenPosts, loading, refreshing, sheetComments,
                   sheetLoading, sending, micro>>
    /\ UNCHANGED <<storeVars, reactVars, otherScreens>>

\* the continuations of the handlers
Continue ==
    \/ MountEffect
    \/ LoadPostsDone
    \/ OnRefreshDone
    \/ HandleReactFetch
    \/ HandleReactDone
    \/ SubmitCreated
    \/ Load
    \/ LoadDone
    \/ SendDone

ScreenNext ==
    \/ Tick /\ UNCHANGED <<reactVars, screenVars, otherScreens>>
    \/ Continue
    \/ OnRefresh
    \/ Submit
    \/ \E p \in PostIdArgs, r \in Reactions : HandleReact(p, r)
    \/ \E p \in PostIdArgs : HandleComment(p)
    \/ \E t \in Texts : Send(t)
    \/ OnClose

ScreenSpec == Init /\ [][ScreenNext]_vars
\* a queued continuation is always run: the microtask queue is drained
\* before the next event
LiveScreenSpec == ScreenSpec /\ WF_vars(Continue)

\* ------------------------------------------------ callers' promises
\* toggleReaction called without waiting for the promises of earlier calls
\* (Promise.all, or handlers of several events); the body still runs when
\* the function is called
ReactToggle(postId, userId, reaction) ==
    /\ toggleReaction(postId, userId, reaction)
    /\ overlapped' = (unresolved > 0)
    /\ unresolved' = unresolved + 1
    /\ UNCHANGED <<screenVars, otherScreens>>

\* the promise of the earliest unresolved call resolves
Resolve ==
    /\ unresolved > 0
    /\ unresolved' = unresolved - 1
    /\ UNCHANGED <<overlapped, storeVars, screenVars, otherScreens>>

ReactCreate(authorId) ==
    /\ createPost(Draft(authorId, now))
    /\ overlapped' = FALSE
    /\ UNCHANGED <<unresolved, screenVars, otherScreens>>

ReactNext ==
    \/ Tick /\ UNCHANGED <<reactVars, screenVars, otherScreens>>
    \/ \E u \in Users : ReactCreate(u)
    \/ \E p \in PostIdArgs, u \in Users, r \in Reactions : ReactToggle(p, u, r)
    \/ Resolve

ReactSpec == Init /\ [][ReactNext]_vars

Next ==
    \/ Tick /\ UNCHANGED <<reactVars, screenVars, otherScreens>>
    \/ \E u \in Users :
          createPost(Draft(u, now)) /\ UNCHANGED <<reactVars, screenVars, otherScreens>>
    \/ \E p \in PostIdArgs, u \in Users, r \in Reactions :
          toggleReaction(p, u, r) /\ UNCHANGED <<reactVars, screenVars, otherScreens>>
    \/ \E p \in PostIdArgs, u \in Commenters, t \in Texts :
          addComment(p, CommentDraft(u, t, now))
            /\ UNCHANGED <<reactVars, screenVars, otherScreens>>

Spec == Init /\ [][Next]_vars

\* ------------------------------------------- login, signup and profile
\* email.trim().toLowerCase()
NormalizeEmail(email) == ToLowerCase(Trim(email))
\* a completed request: who made it, with what, how it ended and what the
\* users collection and the device's storage were when it was served
AuthCall(op, client, email, password, outcome, value) ==
    [op |-> op, client |-> client, email |-> email, password |-> password,
     outcome |-> outcome, value |-> value,
     users |-> users, storage |-> storage[client]]

\* query(collection(db, "users"), where("email", "==", email)): the matching
\* documents in document-name order
UsersWhereEmail(docs, email) == SelectSeq(docs, LAMBDA d : d.data.email = email)
\* the position of users/{id}, 0 when there is no such document
DocIndex(docs, id) ==
    IF \E i \in DOMAIN docs : docs[i].id = id
    THEN CHOOSE i \in DOMAIN docs : docs[i].id = id
    ELSE 0
\* a new document takes the place its name gives it: auto-ids and uids are
\* random strings, so any place
InsertDoc(docs, i, d) ==
    SubSeq(docs, 1, i - 1) \o <<d>> \o SubSeq(docs, i, Len(docs))
\* setDoc(ref, data, { merge: true }): the fields of data replace or add to
\* the fields the document has; the other fields stay
MergeFields(old, data) ==
    [k \in DOMAIN old \cup DOMAIN data |->
        IF k \in DOMAIN data THEN data[k] ELSE old[k]]
\* signups that have passed the existence check and not yet added their
\* document
Registering == {c \in Clients : pending[c].op = "registerUser"}
\* persistLogin(userData)
PersistLogin(store, userData) ==
    [k \in DOMAIN store \cup {"userLoggedIn", "userData"} |->
        IF k = "userLoggedIn" THEN "true"
        ELSE IF k = "userData" THEN userData ELSE store[k]]

\* LoginScreen.handleLogin up to the query of emailLogin
HandleLogin(c, email, password) ==
    /\ route[c] = "login"
    /\ pending[c].op = "none"
    /\ Trim(email) # <<>>
    /\ password # ""
    /\ pending' = [pending EXCEPT
                     ![c] = Task("emailLogin", "query", Null, email, password)]
    /\ UNCHANGED <<users, storage, route, profile, lastAuth>>

\* emailLogin after its query, and the rest of handleLogin; answered is
\* whether getDocs resolved
EmailLoginDone(c, answered) ==
    /\ pending[c].op = "emailLogin"
    /\ LET email == NormalizeEmail(pending[c].email)
           password == pending[c].password
           emailSnap == UsersWhereEmail(users, email)
           outcome ==
              IF ~answered THEN "error"
              ELSE IF emailSnap = <<>> THEN "NO_ACCOUNT"
              ELSE IF emailSnap[1].data.password # password
                   THEN "WRONG_PASSWORD" ELSE "ok"
       IN  /\ lastAuth' = AuthCall("emailLogin", c, email, password, outcome, Null)
           /\ IF outcome = "ok"
              THEN LET userDoc == emailSnap[1] IN
                   /\ storage' = [storage EXCEPT ![c] =
                        PersistLogin(@, [uid |-> userDoc.id,
                                         name |-> userDoc.data.name,
                                         email |-> userDoc.data.email,
                                         provider |-> userDoc.data.provider])]
                   /\ route' = [route EXCEPT ![c] = "home"]
              ELSE UNCHANGED <<storage, route>>
    /\ pending' = [pending EXCEPT ![c] = NoTask]
    /\ UNCHANGED <<users, profile>>

\* SignupScreen.handleSignup up to the existence query of registerUser
HandleSignup(c, name, email, password) ==
    /\ route[c] = "login"
    /\ pending[c].op = "none"
    /\ Trim(name) # <<>>
    /\ Trim(email) # <<>>
    /\ password # ""
    /\ Len(password) >= MinPasswordLength
    /\ Len(users) + Cardinality(Registering) < MaxUsers
    /\ pending' = [pending EXCEPT
                     ![c] = Task("registerUser", "query", name, email, password)]
    /\ UNCHANGED <<users, storage, route, profile, lastAuth>>

\* registerUser: the existence query is answered
RegisterQueried(c, answered) ==
    /\ pending[c].op = "registerUser"
    /\ pending[c].step = "query"
    /\ LET email == NormalizeEmail(pending[c].email)
           existing == UsersWhereEmail(users, email)
       IN  IF answered /\ existing = <<>>
           THEN /\ pending' = [pending EXCEPT ![c].step = "addDoc"]
                /\ UNCHANGED lastAuth
           ELSE /\ pending' = [pending EXCEPT ![c] = NoTask]
                /\ lastAuth' = AuthCall("registerUser", c, email,
                                        pending[c].password,
                                        IF answered THEN "EMAIL_EXISTS"
                                        ELSE "error", Null)
    /\ UNCHANGED <<users, storage, route, profile>>

\* registerUser: addDoc creates users/{auto-id} at place i; handleSignup then
\* stores the login and navigates home
RegisterAdded(c, i) ==
    /\ pending[c].op = "registerUser"
    /\ pending[c].step = "addDoc"
    /\ i \in 1..(Len(users) + 1)
    /\ LET email == NormalizeEmail(pending[c].email)
           id == <<"auto", Len(users) + 1>>
           data == [name |-> Trim(pending[c].name), email |-> email,
                    password |-> pending[c].password, provider |-> "email",
                    createdAt |-> "serverTimestamp"]
       IN  /\ lastAuth' = AuthCall("registerUser", c, email,
                                   pending[c].password, "ok", id)
           /\ users' = InsertDoc(users, i, [id |-> id, data |-> data])
           /\ storage' = [storage EXCEPT ![c] =
                PersistLogin(@, [uid |-> id, name |-> Trim(pending[c].name),
                                 email |-> email, provider |-> "email"])]
    /\ route' = [route EXCEPT ![c] = "home"]
    /\ pending' = [pending EXCEPT ![c] = NoTask]
    /\ UNCHANGED profile

\* LoginScreen.handleGoogleLogin: googleLogin with the signed-in user, the
\* merge write to users/{uid} (at place i when the document is new)
HandleGoogleLogin(c, user, i) ==
    /\ route[c] = "login"
    /\ pending[c].op = "none"
    /\ LET at == DocIndex(users, user.uid)
           data == [name |-> user.displayName,
                    email |-> ToLowerCase(user.email),
                    provider |-> "google",
                    password |-> "gauthenticate"]
       IN  /\ IF at # 0
              THEN /\ i = 1
                   /\ users' = [users EXCEPT
                                  ![at].data = MergeFields(@, data)]
              ELSE /\ Len(users) + Cardinality(Registering) < MaxUsers
                   /\ i \in 1..(Len(users) + 1)
                   /\ users' = InsertDoc(users, i,
                                         [id |-> user.uid, data |-> data])
           /\ lastAuth' = AuthCall("googleLogin", c, ToLowerCase(user.email),
                                   "gauthenticate", "ok", user.uid)
    /\ storage' = [storage EXCEPT ![c] =
         PersistLogin(@, [uid |-> user.uid, name |-> user.displayName,
                          email |-> user.email, provider |-> "google"])]
    /\ route' = [route EXCEPT ![c] = "home"]
    /\ UNCHANGED <<pending, profile>>

\* ProfileScreen.doLogout
DoLogout(c) ==
    /\ route[c] = "home"
    /\ pending[c].op = "none"
    /\ storage' = [storage EXCEPT ![c] = EmptyStorage]
    /\ route' = [route EXCEPT ![c] = "login"]
    /\ profile' = [profile EXCEPT ![c] = [myPosts |-> <<>>,
                                          postsLoading |-> FALSE]]
    /\ lastAuth' = AuthCall("logout", c, Null, Null, "ok", Null)
    /\ UNCHANGED <<users, pending>>

\* ProfileScreen.loadData and loadMyPosts up to the query of fetchUserPosts
LoadData(c) ==
    /\ route[c] = "home"
    /\ pending[c].op = "none"
    /\ "userData" \in DOMAIN storage[c]
    /\ pending' = [pending EXCEPT
                     ![c] = Task("fetchUserPosts", "query", Null,
                                 storage[c].userData.email, Null)]
    /\ profile' = [profile EXCEPT ![c].postsLoading = TRUE]
    /\ UNCHANGED <<users, storage, route, lastAuth>>

\* fetchUserPosts after its query, and the rest of loadMyPosts: the query
\* finds docs when it is answered; the catch returns [] when it is not
FetchUserPostsDone(c, answered, docs) ==
    /\ pending[c].op = "fetchUserPosts"
    /\ docs \in PostDocs(pending[c].email)
    /\ ~answered => docs = <<>>
    /\ LET value == IF answered THEN docs ELSE <<>> IN
       /\ lastAuth' = AuthCall("fetchUserPosts", c, pending[c].email, Null,
                               IF answered THEN "ok" ELSE "error",
                               [settled |-> "fulfilled", value |-> value])
       /\ profile' = [profile EXCEPT ![c] = [myPosts |-> value,
                                             postsLoading |-> FALSE]]
    /\ pending' = [pending EXCEPT ![c] = NoTask]
    /\ UNCHANGED <<users, storage, route>>

\* the variables of the community screen and its store
communityVars == <<storeVars, reactVars, screenVars>>

AuthNext ==
    \/ \E c \in Followed, e \in Emails, p \in Passwords :
          HandleLogin(c, e, p) /\ UNCHANGED <<communityVars, cropVars, homeVars>>
    \/ \E c \in Clients, answered \in BOOLEAN :
          EmailLoginDone(c, answered) /\ UNCHANGED <<communityVars, cropVars, homeVars>>
    \/ \E c \in Clients, n \in Names, e \in Emails, p \in NewPasswords :
          HandleSignup(c, n, e, p) /\ UNCHANGED <<communityVars, cropVars, homeVars>>
    \/ \E c \in Clients, answered \in BOOLEAN :
          RegisterQueried(c, answered) /\ UNCHANGED <<communityVars, cropVars, homeVars>>
    \/ \E c \in Clients, i \in 1..MaxUsers :
          RegisterAdded(c, i) /\ UNCHANGED <<communityVars, cropVars, homeVars>>
    \/ \E c \in Followed, g \in GoogleProfiles, i \in 1..MaxUsers :
          HandleGoogleLogin(c, g, i) /\ UNCHANGED <<communityVars, cropVars, homeVars>>
    \/ \E c \in Followed : DoLogout(c) /\ UNCHANGED <<communityVars, cropVars, homeVars>>
    \/ \E c \in Followed : LoadData(c) /\ UNCHANGED <<communityVars, cropVars, homeVars>>
    \/ \E c \in Clients, answered \in BOOLEAN :
          \E docs \in PostDocs(pending[c].email) :
             FetchUserPostsDone(c, answered, docs) /\ UNCHANGED <<communityVars, cropVars, homeVars>>

AuthSpec == Init /\ [][AuthNext]_vars

\* ------------------------------------------- the crop recommendation screen
\* the value of a decimal digit character, -1 for any other character
DigitValue(ch) ==
    IF ch = "0" THEN 0 ELSE IF ch = "1" THEN 1 ELSE IF ch = "2" THEN 2
    ELSE IF ch = "3" THEN 3 ELSE IF ch = "4" THEN 4 ELSE IF ch = "5" THEN 5
    ELSE IF ch = "6" THEN 6 ELSE IF ch = "7" THEN 7 ELSE IF ch = "8" THEN 8
    ELSE IF ch = "9" THEN 9 ELSE -1
\* the digits at the front of a text
RECURSIVE LeadingDigits(_)
LeadingDigits(text) ==
    IF text # <<>> /\ DigitValue(Head(text)) >= 0
    THEN <<Head(text)>> \o LeadingDigits(Tail(text))
    ELSE <<>>
\* the number a sequence of digits writes
RECURSIVE DigitsValue(_)
DigitsValue(digits) ==
    IF digits = <<>> THEN 0
    ELSE 10 * DigitsValue(SubSeq(digits, 1, Len(digits) - 1))
           + DigitValue(digits[Len(digits)])
\* parseFloat on texts without whitespace and without digits after a point:
\* an optional sign and the leading digits, NaN when there is no digit
ParseFloat(text) ==
    LET negative == text # <<>> /\ Head(text) = "-"
        digits == LeadingDigits(IF negative THEN Tail(text) ELSE text)
    IN  IF digits = <<>> THEN NaN
        ELSE Num(IF negative THEN 0 - DigitsValue(digits)
                 ELSE DigitsValue(digits))
\* a comparison with NaN is false
IsNumber(v) == Len(v) = 2 /\ v[1] = "num"
LessThan(v, n) == IsNumber(v) /\ v[2] < n
GreaterThan(v, n) == IsNumber(v) /\ v[2] > n
AtLeast(v, n) == IsNumber(v) /\ v[2] >= n
AtMost(v, n) == IsNumber(v) /\ v[2] =< n

\* validateForm: what it finds; it returns true only for "ok" and shows the
\* "Using Default Values" alert for "defaults"
ValidateForm(fd) ==
    IF fd.ph = Null THEN "phRequired"
    ELSE IF LessThan(fd.ph, MinPh) \/ GreaterThan(fd.ph, MaxPh) THEN "invalidPh"
    ELSE IF fd.N = Null \/ fd.P = Null \/ fd.K = Null THEN "defaults"
    ELSE "ok"

\* the test handleSubmit makes after validateForm returned false
PhInRange(fd) == fd.ph # Null /\ AtLeast(fd.ph, MinPh) /\ AtMost(fd.ph, MaxPh)

\* a ?? b
Coalesce(a, b) == IF a = Null THEN b ELSE a
\* inputData of a prediction: { ...formData, ...apiData }
InputData(fd) ==
    [N |-> Coalesce(fd.N, Num(MeanN)), P |-> Coalesce(fd.P, Num(MeanP)),
     K |-> Coalesce(fd.K, Num(MeanK)), ph |-> fd.ph]
\* the PredictionResult of the n-th response
Prediction(n, fd) == [id |-> n, inputData |-> InputData(fd)]
\* JSON.parse(JSON.stringify(value)) of a form value: NaN is written as null
JsonValue(v) == IF v = NaN THEN Null ELSE v
\* JSON.parse(JSON.stringify(updatedHistory))
JsonHistory(items) ==
    [i \in DOMAIN items |->
        [id |-> items[i].id,
         inputData |-> [k \in DOMAIN items[i].inputData |->
                           JsonValue(items[i].inputData[k])]]]
\* array.filter((_, i) => i !== index), index counted from 1 here
WithoutIndex(arr, index) ==
    SubSeq(arr, 1, index - 1) \o SubSeq(arr, index + 1, Len(arr))
IdsOf(items) == [i \in DOMAIN items |-> items[i].id]

\* performAPICall up to await fetch, called from a render in which formData
\* is fd and history is hist
StartRequest(fd, hist) ==
    /\ cropLoading' = TRUE
    /\ submitted' = TRUE
    /\ inFlight' = Append(inFlight, [formData |-> fd, history |-> hist])
    /\ started' = started + 1

\* handleInputChange(field, value)
HandleInputChange(field, text) ==
    /\ ~dialog.shown
    /\ ~submitted
    /\ formData' = [formData EXCEPT
                      ![field] = IF text = <<>> THEN Null ELSE ParseFloat(text)]
    /\ UNCHANGED <<cropLoading, submitted, history, historyLoaded, dialog,
                   inFlight, stored, started, expected, lastPress>>

\* handleSubmit: validateForm, the alert it shows, and the performAPICall
\* handleSubmit itself makes
HandleSubmit ==
    /\ ~dialog.shown
    /\ ~(cropLoading \/ submitted)
    /\ LET found == ValidateForm(formData)
           requests == IF found = "ok" \/ PhInRange(formData) THEN 1 ELSE 0
       IN  /\ lastPress' = [found |-> found,
                            phInRange |-> PhInRange(formData),
                            choice |-> "none", requests |-> requests]
           /\ dialog' = IF found = "defaults"
                        THEN [shown |-> TRUE, formData |-> formData,
                              history |-> history]
                        ELSE dialog
           /\ started + requests + (IF found = "defaults" THEN 1 ELSE 0)
                 =< MaxPredictions
           /\ IF requests = 1
              THEN StartRequest(formData, history)
              ELSE UNCHANGED <<cropLoading, submitted, inFlight, started>>
    /\ UNCHANGED <<formData, history, historyLoaded, stored, expected>>

\* Cancel in the "Using Default Values" alert
DialogCancel ==
    /\ dialog.shown
    /\ dialog' = NoDialog
    /\ lastPress' = [lastPress EXCEPT !.choice = "Cancel"]
    /\ UNCHANGED <<formData, cropLoading, submitted, history, historyLoaded,
                   inFlight, stored, started, expected>>

\* Continue in the "Using Default Values" alert: proceedWithSubmit
DialogContinue ==
    /\ dialog.shown
    /\ dialog' = NoDialog
    /\ lastPress' = [lastPress EXCEPT !.choice = "Continue",
                                      !.requests = @ + 1]
    /\ StartRequest(dialog.formData, dialog.history)
    /\ UNCHANGED <<formData, history, historyLoaded, stored, expected>>

\* performAPICall after await fetch for the i-th request in flight: with a
\* usable response saveToHistory, otherwise the catch; then the finally
RequestDone(i, ok) ==
    /\ i \in DOMAIN inFlight
    /\ inFlight' = WithoutIndex(inFlight, i)
    /\ cropLoading' = FALSE
    /\ IF ok
       THEN LET n == started - Len(inFlight) + 1
                updatedHistory ==
                    <<Prediction(n, inFlight[i].formData)>>
                        \o inFlight[i].history
            IN  /\ stored' = JsonHistory(updatedHistory)
                /\ history' = updatedHistory
                /\ expected' = <<n>> \o expected
                /\ UNCHANGED submitted
       ELSE /\ submitted' = FALSE
            /\ UNCHANGED <<stored, history, expected>>
    /\ UNCHANGED <<formData, historyLoaded, dialog, started, lastPress>>

\* handleReset
HandleReset ==
    /\ ~dialog.shown
    /\ formData' = EmptyForm
    /\ submitted' = FALSE
    /\ UNCHANGED <<cropLoading, history, historyLoaded, dialog, inFlight,
                   stored, started, expected, lastPress>>

\* loadHistoryItem(history[index])
LoadHistoryItem(index) ==
    /\ ~dialog.shown
    /\ index \in DOMAIN history
    /\ formData' = history[index].inputData
    /\ submitted' = TRUE
    /\ UNCHANGED <<cropLoading, history, historyLoaded, dialog, inFlight,
                   stored, started, expected, lastPress>>

\* deleteHistoryItem(index), index counted from 1 here
DeleteHistoryItem(index) ==
    /\ ~dialog.shown
    /\ index \in DOMAIN history
    /\ LET updatedHistory == WithoutIndex(history, index) IN
       /\ stored' = JsonHistory(updatedHistory)
       /\ history' = updatedHistory
    /\ expected' = SelectSeq(expected, LAMBDA n : n # history[index].id)
    /\ UNCHANGED <<formData, cropLoading, submitted, historyLoaded, dialog,
                   inFlight, started, lastPress>>

\* ProfileScreen.handleClearHistory, confirmed:
\* AsyncStorage.removeItem("cropPredictionHistory")
ClearHistory ==
    /\ stored # <<>>
    /\ stored' = <<>>
    /\ expected' = <<>>
    /\ UNCHANGED <<formData, cropLoading, submitted, history, historyLoaded,
                   dialog, inFlight, started, lastPress>>

\* the screen is left with router.back() and opened again: its state starts
\* over and the mount effect calls loadHistory
Remount ==
    /\ ~dialog.shown
    /\ inFlight = <<>>
    /\ historyLoaded
    /\ formData' = EmptyForm
    /\ cropLoading' = FALSE
    /\ submitted' = FALSE
    /\ history' = <<>>
    /\ historyLoaded' = FALSE
    /\ UNCHANGED <<dialog, inFlight, stored, started, expected, lastPress>>

\* loadHistory after await AsyncStorage.getItem
LoadHistoryDone ==
    /\ ~historyLoaded
    /\ historyLoaded' = TRUE
    /\ history' = IF stored # <<>> THEN stored ELSE history
    /\ UNCHANGED <<formData, cropLoading, submitted, dialog, inFlight, stored,
                   started, expected, lastPress>>

\* the variables of every screen but the crop recommendation screen
notCrop == <<communityVars, authVars, homeVars>>

CropNext ==
    \/ \E f \in Nutrients, t \in NutrientTexts :
          HandleInputChange(f, t) /\ UNCHANGED notCrop
    \/ \E t \in PhTexts : HandleInputChange("ph", t) /\ UNCHANGED notCrop
    \/ HandleSubmit /\ UNCHANGED notCrop
    \/ DialogCancel /\ UNCHANGED notCrop
    \/ DialogContinue /\ UNCHANGED notCrop
    \/ \E i \in 1..MaxPredictions, ok \in BOOLEAN :
          RequestDone(i, ok) /\ UNCHANGED notCrop
    \/ HandleReset /\ UNCHANGED notCrop
    \/ \E i \in 1..MaxPredictions : LoadHistoryItem(i) /\ UNCHANGED notCrop
    \/ \E i \in 1..MaxPredictions : DeleteHistoryItem(i) /\ UNCHANGED notCrop
    \/ ClearHistory /\ UNCHANGED notCrop
    \/ Remount /\ UNCHANGED notCrop
    \/ LoadHistoryDone /\ UNCHANGED notCrop

CropSpec == Init /\ [][CropNext]_vars

\* ------------------------------------------------------ the home screen
\* KERALA_RAINFALL_DATA[loc.district] || 2500
RainfallOf(district) ==
    IF district \in DOMAIN KERALA_RAINFALL_DATA
    THEN KERALA_RAINFALL_DATA[district]
    ELSE "2500"

\* data.address.county || data.address.state_district || "Unknown"
DistrictOf(address) ==
    IF address.county # "" THEN address.county
    ELSE IF address.state_district # "" THEN address.state_district
    ELSE "Unknown"

\* data.address.state || "Kerala"
StateOf(address) == IF address.state # "" THEN address.state ELSE "Kerala"

\* clearTimeout(locationTimeoutRef.current): stops the timer if it has not
\* fired
ClearTimeout == IF locationTimeout = "armed" THEN "cleared" ELSE locationTimeout

\* setDefaultLocation up to its await AsyncStorage.setItem; kind tells who
\* called it: "timer" for the 15-second timer, "default" for a function
SetDefaultLocation(kind) ==
    Awaiting("setItem", kind, Loc("Idukki", "Kerala", TRUE))

\* fetchWeatherData(loc) up to its await fetch, after setLoading(true)
FetchWeatherData(loc) == Awaiting("weather", "weather", loc)

\* requestLocationPermission up to its await
RequestLocationPermission == Awaiting("permission", "permission", NoLocation)

\* initializeLocation after await AsyncStorage.getItem("userLocation")
GetItemDone(i, ok) ==
    /\ i \in DOMAIN awaited
    /\ awaited[i].step = "getItem"
    /\ IF ok /\ userLocation # NoLocation
       THEN /\ location' = userLocation
            /\ locationLoading' = FALSE
            /\ weatherLoading' = TRUE
            /\ locationTimeout' = ClearTimeout
            /\ awaited' = Append(WithoutIndex(awaited, i),
                                 FetchWeatherData(userLocation))
       ELSE /\ awaited' = Append(WithoutIndex(awaited, i),
                                 IF ok THEN RequestLocationPermission
                                 ELSE SetDefaultLocation("default"))
            /\ UNCHANGED <<location, locationLoading, weatherLoading,
                           locationTimeout>>
    /\ UNCHANGED <<userLocation, weather, showLocationModal, cropParams,
                   selected, homePresses>>

\* requestLocationPermission after await requestForegroundPermissionsAsync:
\* status is "granted" or "denied", or the request threw ("error")
PermissionDone(i, status) ==
    /\ i \in DOMAIN awaited
    /\ awaited[i].step = "permission"
    /\ awaited' = Append(WithoutIndex(awaited, i),
                         IF status = "granted"
                         THEN Awaiting("position", "position", NoLocation)
                         ELSE SetDefaultLocation("default"))
    /\ UNCHANGED <<location, userLocation, locationLoading, weather,
                   weatherLoading, showLocationModal, locationTimeout,
                   cropParams, selected, homePresses>>

\* getCurrentLocation after await getCurrentPositionAsync
PositionDone(i, ok) ==
    /\ i \in DOMAIN awaited
    /\ awaited[i].step = "position"
    /\ locationTimeout' = IF ok THEN ClearTimeout ELSE locationTimeout
    /\ awaited' = Append(WithoutIndex(awaited, i),
                         IF ok
                         THEN Awaiting("geocode", "geocode", NoLocation)
                         ELSE SetDefaultLocation("default"))
    /\ UNCHANGED <<location, userLocation, locationLoading, weather,
                   weatherLoading, showLocationModal, cropParams, selected,
                   homePresses>>

\* reverseGeocode after await fetch and await res.json(), up to its await
\* AsyncStorage.setItem; ~ok is a fetch that rejected or an answer without
\* an address
GeocodeDone(i, ok, address) ==
    /\ i \in DOMAIN awaited
    /\ awaited[i].step = "geocode"
    /\ awaited' = Append(WithoutIndex(awaited, i),
                         IF ok
                         THEN Awaiting("setItem", "geocode",
                                       Loc(DistrictOf(address),
                                           StateOf(address), FALSE))
                         ELSE SetDefaultLocation("default"))
    /\ UNCHANGED <<location, userLocation, locationLoading, weather,
                   weatherLoading, showLocationModal, locationTimeout,
                   cropParams, selected, homePresses>>

\* setDefaultLocation, reverseGeocode and selectManualLocation after their
\* await AsyncStorage.setItem("userLocation", JSON.stringify(loc))
SetItemDone(i) ==
    /\ i \in DOMAIN awaited
    /\ awaited[i].step = "setItem"
    /\ userLocation' = awaited[i].loc
    /\ location' = awaited[i].loc
    /\ IF awaited[i].kind = "manual"
       THEN /\ showLocationModal' = FALSE
            /\ selected' = awaited[i].loc.district
            /\ UNCHANGED locationLoading
       ELSE /\ locationLoading' = FALSE
            /\ UNCHANGED <<showLocationModal, selected>>
    /\ weatherLoading' = TRUE
    /\ awaited' = Append(WithoutIndex(awaited, i),
                         FetchWeatherData(awaited[i].loc))
    /\ UNCHANGED <<weather, locationTimeout, cropParams, homePresses>>

\* the 15 seconds of setTimeout(setDefaultLocation, 15000) have passed
TimerFires ==
    /\ locationTimeout = "armed"
    /\ locationTimeout' = "fired"
    /\ awaited' = Append(awaited, SetDefaultLocation("timer"))
    /\ UNCHANGED <<location, userLocation, locationLoading, weather,
                   weatherLoading, showLocationModal, cropParams, selected,
                   homePresses>>

\* the LocationCard's buttons, rendered once locationLoading is false
OpenLocationModal ==
    /\ ~locationLoading
    /\ ~showLocationModal
    /\ showLocationModal' = TRUE
    /\ UNCHANGED <<location, userLocation, locationLoading, weather,
                   weatherLoading, locationTimeout, awaited, cropParams,
                   selected, homePresses>>

\* the modal's close button and onRequestClose
CloseLocationModal ==
    /\ showLocationModal
    /\ showLocationModal' = FALSE
    /\ UNCHANGED <<location, userLocation, locationLoading, weather,
                   weatherLoading, locationTimeout, awaited, cropParams,
                   selected, homePresses>>

\* a row of the modal's list is pressed: selectManualLocation(d) up to its
\* await AsyncStorage.setItem
SelectManualLocation(d) ==
    /\ showLocationModal
    /\ homePresses < MaxPresses
    /\ homePresses' = homePresses + 1
    /\ selected' = ""
    /\ awaited' = Append(awaited,
                         Awaiting("setItem", "manual", Loc(d, "Kerala", TRUE)))
    /\ UNCHANGED <<location, userLocation, locationLoading, weather,
                   weatherLoading, showLocationModal, locationTimeout,
                   cropParams>>

\* "Detect My Location" is pressed
DetectMyLocation ==
    /\ showLocationModal
    /\ homePresses < MaxPresses
    /\ homePresses' = homePresses + 1
    /\ selected' = ""
    /\ showLocationModal' = FALSE
    /\ awaited' = Append(awaited, RequestLocationPermission)
    /\ UNCHANGED <<location, userLocation, locationLoading, weather,
                   weatherLoading, locationTimeout, cropParams>>

\* fetchWeatherData(loc) after await fetch and await res.json(): the try
\* block's setWeather or the catch block's, then finally
FetchWeatherDone(i, ok) ==
    /\ i \in DOMAIN awaited
    /\ awaited[i].step = "weather"
    /\ weather' = [temp |-> IF ok THEN "31" ELSE "28",
                   humidity |-> IF ok THEN "80" ELSE "75",
                   rainfall |-> RainfallOf(awaited[i].loc.district)]
    /\ weatherLoading' = FALSE
    /\ awaited' = WithoutIndex(awaited, i)
    /\ UNCHANGED <<location, userLocation, locationLoading,
                   showLocationModal, locationTimeout, cropParams, selected,
                   homePresses>>

\* the Crop Prediction card is pressed
HandleCropPrediction ==
    /\ weather # NoWeather
    /\ location # NoLocation
    /\ cropParams' = [temperature |-> weather.temp,
                      humidity |-> weather.humidity,
                      rainfall |-> weather.rainfall,
                      district |-> location.district]
    /\ UNCHANGED <<location, userLocation, locationLoading, weather,
                   weatherLoading, showLocationModal, locationTimeout,
                   awaited, selected, homePresses>>

\* HomeScreen is left with nothing pending and opened again: the effect's
\* cleanup, a fresh component state and initializeLocation
HomeRemount ==
    /\ awaited = <<>>
    /\ homePresses < MaxPresses
    /\ homePresses' = homePresses + 1
    /\ location' = NoLocation
    /\ locationLoading' = TRUE
    /\ weather' = NoWeather
    /\ weatherLoading' = TRUE
    /\ showLocationModal' = FALSE
    /\ locationTimeout' = "armed"
    /\ awaited' = <<Awaiting("getItem", "initialize", NoLocation)>>
    /\ selected' = ""
    /\ UNCHANGED <<userLocation, cropParams>>

\* the variables of every screen but the home screen
notHome == <<communityVars, authVars, cropVars>>

\* the most promises HomeScreen can be awaiting: one per press, the first
\* mount's and the timer's, and one fetchWeatherData each
MaxAwaited == 2 * (MaxPresses + 2)

HomeNext ==
    \/ \E i \in 1..MaxAwaited, ok \in BOOLEAN :
          GetItemDone(i, ok) /\ UNCHANGED notHome
    \/ \E i \in 1..MaxAwaited, status \in {"granted", "denied", "error"} :
          PermissionDone(i, status) /\ UNCHANGED notHome
    \/ \E i \in 1..MaxAwaited, ok \in BOOLEAN :
          PositionDone(i, ok) /\ UNCHANGED notHome
    \/ \E i \in 1..MaxAwaited, ok \in BOOLEAN, address \in Addresses :
          GeocodeDone(i, ok, address) /\ UNCHANGED notHome
    \/ \E i \in 1..MaxAwaited : SetItemDone(i) /\ UNCHANGED notHome
    \/ TimerFires /\ UNCHANGED notHome
    \/ OpenLocationModal /\ UNCHANGED notHome
    \/ CloseLocationModal /\ UNCHANGED notHome
    \/ \E d \in ManualDistricts : SelectManualLocation(d) /\ UNCHANGED notHome
    \/ DetectMyLocation /\ UNCHANGED notHome
    \/ \E i \in 1..MaxAwaited, ok \in BOOLEAN :
          FetchWeatherDone(i, ok) /\ UNCHANGED notHome
    \/ HandleCropPrediction /\ UNCHANGED notHome
    \/ HomeRemount /\ UNCHANGED notHome

HomeSpec == Init /\ [][HomeNext]_vars

\* the timer fires when armed and AsyncStorage.setItem completes; nothing
\* makes the permission request, the position fix or a fetch complete
LiveHomeSpec ==
    /\ HomeSpec
    /\ WF_vars(TimerFires /\ UNCHANGED notHome)
    /\ WF_vars(\E i \in 1..MaxAwaited : SetItemDone(i) /\ UNCHANGED notHome)

\* ------------------------------------------------------------ properties
Range(arr) == {arr[i] : i \in DOMAIN arr}
OtherReaction(reaction) == IF reaction = "like" THEN "dislike" ELSE "like"
\* the users reacting to a post with the given reaction, as a set
Reacting(post, reaction) ==
    IF reaction = "like" THEN Range(post.likedBy) ELSE Range(post.dislikedBy)
CountOf(post, reaction) ==
    IF reaction = "like" THEN post.likeCount ELSE post.dislikeCount
\* the last call was toggleReaction and found a post: its index, else 0
ToggledIndex ==
    IF lastCall.op = "toggleReaction"
    THEN FindIndex(before.posts, lastCall.postId) ELSE 0
\* the last two calls were the same toggleReaction and found a post: its
\* index, else 0 (no call, only clock ticks, lies between the two)
PairIndex ==
    IF /\ lastCall.op = "toggleReaction"
       /\ prevCall = lastCall
    THEN FindIndex(before2.posts, lastCall.postId) ELSE 0

\* C1: in every reachable state, for every stored post and every user, the
\* user is in at most one of the post's likedBy and dislikedBy.
C1_MutualExclusion ==
    \A i \in DOMAIN stubPosts : \A u \in Users :
        ~(Includes(stubPosts[i].likedBy, u) /\ Includes(stubPosts[i].dislikedBy, u))

\* C1 witness: a toggleReaction just switched a user from liking to disliking
\* a post that another user likes.
C1_Witness ==
    /\ ToggledIndex # 0
    /\ lastCall.reaction = "dislike"
    /\ lastCall.userId \in Range(before.posts[ToggledIndex].likedBy)
    /\ lastCall.userId \in Range(stubPosts[ToggledIndex].dislikedBy)
    /\ stubPosts[ToggledIndex].likedBy # <<>>

\* C2: in every reachable state, for every stored post, likeCount is the
\* number of distinct users in likedBy and dislikeCount the number of distinct
\* users in dislikedBy, and neither array holds a user twice.
C2_CountsEqualSetSizes ==
    \A i \in DOMAIN stubPosts :
        /\ stubPosts[i].likeCount = Cardinality(Range(stubPosts[i].likedBy))
        /\ stubPosts[i].dislikeCount = Cardinality(Range(stubPosts[i].dislikedBy))
        /\ Len(stubPosts[i].likedBy) = Cardinality(Range(stubPosts[i].likedBy))
        /\ Len(stubPosts[i].dislikedBy) = Cardinality(Range(stubPosts[i].dislikedBy))

\* C2 witness: a toggleReaction just un-reacted (the floor-at-0 decrement ran)
\* on a post that keeps another reaction of the same kind.
C2_Witness ==
    /\ ToggledIndex # 0
    /\ lastCall.userId \in Reacting(before.posts[ToggledIndex], lastCall.reaction)
    /\ lastCall.userId \notin Reacting(stubPosts[ToggledIndex], lastCall.reaction)
    /\ CountOf(stubPosts[ToggledIndex], lastCall.reaction) = 1

\* C3: in every reachable state, for every stored post P, commentCount(P) is
\* the length of the sequence fetchComments(P.id) returns.
C3_CommentCountIsLogLength ==
    \A i \in DOMAIN stubPosts :
        stubPosts[i].commentCount
            = Len(fetchComments(stubComments, stubPosts[i].id))

\* the reaction fields of a post, arrays compared element by element
ReactionFields(post) ==
    <<post.likedBy, post.dislikedBy, post.likeCount, post.dislikeCount>>
\* the reaction fields of a post, arrays compared as sets of users
ReactionState(post) ==
    <<Range(post.likedBy), Range(post.dislikedBy),
      post.likeCount, post.dislikeCount>>

\* C4 as stated: whatever reaction the user had beforehand, two identical
\* toggleReaction calls in a row leave likedBy, dislikedBy, likeCount and
\* dislikeCount of the post exactly as they were before the first call.
C4_PairLawEveryPriorState ==
    PairIndex # 0 =>
        ReactionFields(stubPosts[PairIndex])
            = ReactionFields(before2.posts[PairIndex])

\* C4 amended: two identical toggleReaction calls in a row leave the users in
\* likedBy and dislikedBy (as sets) and both counts as they were before the
\* first call when the user did not hold the opposite reaction beforehand;
\* when the user did, the pair leaves the user in neither set.
C4_PairLaw ==
    PairIndex # 0 =>
        LET was == before2.posts[PairIndex]
            is == stubPosts[PairIndex]
            u == lastCall.userId
        IN  IF u \in Reacting(was, OtherReaction(lastCall.reaction))
            THEN /\ u \notin Range(is.likedBy)
                 /\ u \notin Range(is.dislikedBy)
            ELSE ReactionState(is) = ReactionState(was)

\* C4 witness: a user reacting to nothing toggled the same reaction twice in
\* a row (react, then un-react).
C4_Witness ==
    /\ PairIndex # 0
    /\ lastCall.userId \notin Range(before2.posts[PairIndex].likedBy)
    /\ lastCall.userId \notin Range(before2.posts[PairIndex].dislikedBy)
    /\ lastCall.userId
         \in Reacting(before.posts[PairIndex], lastCall.reaction)

\* C5: when toggleReaction(P, U, r) is called while U holds the opposite
\* reaction on the post the store locates for P, afterwards U holds r and not
\* the opposite reaction, the count of r is one higher and the count of the
\* opposite reaction one lower.
C5_SwitchLaw ==
    (/\ ToggledIndex # 0
     /\ lastCall.userId \in Reacting(before.posts[ToggledIndex],
                                     OtherReaction(lastCall.reaction)))
    => LET was == before.posts[ToggledIndex]
           is == stubPosts[ToggledIndex]
           r == lastCall.reaction
           o == OtherReaction(lastCall.reaction)
       IN /\ lastCall.userId \in Reacting(is, r)
          /\ lastCall.userId \notin Reacting(is, o)
          /\ CountOf(is, r) = CountOf(was, r) + 1
          /\ CountOf(is, o) = CountOf(was, o) - 1

\* C5 witness: a user disliking a post has just toggled like on it.
C5_Witness ==
    /\ ToggledIndex # 0
    /\ lastCall.reaction = "like"
    /\ lastCall.userId \in Range(before.posts[ToggledIndex].dislikedBy)

\* C6: toggleReaction on a postId that is not in the store changes no post
\* and no comment and settles with the outcome NotFound.
C6_ToggleMissingIsNotFound ==
    (/\ lastCall.op = "toggleReaction"
     /\ FindIndex(before.posts, lastCall.postId) = 0)
    => /\ Store = before
       /\ lastCall.settled = "rejected"
       /\ lastCall.value = "NotFound"

\* C7: addComment with a text that is empty after trimming settles with
\* EmptyText and leaves the comment log and every post unchanged.
C7_EmptyTextRejected ==
    (/\ lastCall.op = "addComment"
     /\ Trim(lastCall.text) = <<>>)
    => /\ Store = before
       /\ lastCall.settled = "rejected"
       /\ lastCall.value = "EmptyText"

\* C8: addComment for a postId that is not in the store settles with
\* NotFound, and fetchComments(postId) returns what it returned before.
C8_CommentOnMissingIsNotFound ==
    (/\ lastCall.op = "addComment"
     /\ FindIndex(before.posts, lastCall.postId) = 0)
    => /\ fetchComments(stubComments, lastCall.postId)
            = fetchComments(before.comments, lastCall.postId)
       /\ lastCall.settled = "rejected"
       /\ lastCall.value = "NotFound"

\* C9: addComment with a non-empty text on an existing post appends exactly
\* one comment to the post's log, with an id no comment already stored for
\* the post has, and raises the post's commentCount by exactly one.
C9_AddCommentAppendsFresh ==
    (/\ lastCall.op = "addComment"
     /\ Trim(lastCall.text) # <<>>
     /\ FindIndex(before.posts, lastCall.postId) # 0)
    => LET i == FindIndex(before.posts, lastCall.postId)
           was == CommentsOf(before.comments, lastCall.postId)
           is == CommentsOf(stubComments, lastCall.postId)
       IN /\ Len(is) = Len(was) + 1
          /\ SubSeq(is, 1, Len(was)) = was
          /\ \A k \in DOMAIN was : was[k].id # is[Len(is)].id
          /\ stubPosts[i].commentCount = before.posts[i].commentCount + 1

\* C10: createPost returns an id no post already in the store has, so no two
\* stored posts share an id.
C10_PostIdsUnique ==
    /\ lastCall.op = "createPost" =>
          \A i \in DOMAIN before.posts : before.posts[i].id # lastCall.value
    /\ \A i, j \in DOMAIN stubPosts : i # j => stubPosts[i].id # stubPosts[j].id

\* every result of fetchPosts the screen holds: its posts state and the
\* results its continuations are about to set
FeedResults ==
    {screenPosts} \cup
    {micro[i].data : i \in {j \in DOMAIN micro :
                              micro[j].k \in {"loadPosts", "onRefresh", "setPosts"}}}
\* every result of fetchComments the sheet holds
SheetResults ==
    {r \in {sheetComments} \cup
           {micro[i].data : i \in {j \in DOMAIN micro : micro[j].k = "setComments"}} :
        r.op = "fetchComments"}

\* C11: the post the create-post form has just created has likeCount 0,
\* dislikeCount 0, empty likedBy and dislikedBy and commentCount 0, and every
\* result of a fetchPosts call made after createPost returned includes it.
C11_CreatedPostStartsEmptyAndIsFetched ==
    lastCall.op = "createPost" =>
        LET k == Len(before.posts) + 1
            post == Deref(stubPosts, k)
        IN /\ post.likeCount = 0 /\ post.dislikeCount = 0
           /\ post.likedBy = <<>> /\ post.dislikedBy = <<>>
           /\ post.commentCount = 0
           /\ \A r \in FeedResults :
                Len(r.store) >= k => k \in Range(r.refs)

\* C11 witness: the form created a post and onCreated's loadPosts has set the
\* screen's posts from a read made afterwards.
C11_Witness ==
    /\ lastCall.op = "createPost"
    /\ Idle
    /\ Len(screenPosts.store) = Len(stubPosts)
    /\ Len(stubPosts) \in Range(screenPosts.refs)

\* C12: every result of fetchPosts holds every post that was in the store
\* when it was called exactly once, ordered by createdAt descending.
C12_FetchPostsAllSortedDescending ==
    \A r \in FeedResults :
        /\ Len(r.refs) = Len(r.store)
        /\ Range(r.refs) = 1..Len(r.store)
        /\ \A i \in 1..(Len(r.refs) - 1) :
             Deref(r.store, r.refs[i]).createdAt
                >= Deref(r.store, r.refs[i + 1]).createdAt

\* C12 witness: the screen holds a result with two posts created at
\* different clock readings.
C12_Witness ==
    /\ Len(screenPosts.refs) = 2
    /\ Deref(screenPosts.store, 1).createdAt
         # Deref(screenPosts.store, 2).createdAt

\* the fields of a post that toggleReaction and addComment write
MutableFields(post) ==
    <<post.likeCount, post.dislikeCount, post.likedBy, post.dislikedBy,
      post.commentCount>>

\* C13: the posts of a result fetchPosts has returned keep the likeCount,
\* dislikeCount, likedBy, dislikedBy and commentCount they had when the call
\* returned.
C13_ReturnedPostsKeepTheirValues ==
    \A r \in FeedResults : \A i \in DOMAIN r.refs :
        MutableFields(Deref(stubPosts, r.refs[i]))
            = MutableFields(Deref(r.store, r.refs[i]))

\* C14: every result of fetchComments is the post's comments ordered by
\* createdAt ascending, and is the empty sequence when the post has none.
C14_FetchCommentsSortedAscending ==
    \A r \in SheetResults :
        /\ Len(r.value) = Len(CommentsOf(r.store, r.postId))
        /\ \A c \in Range(CommentsOf(r.store, r.postId)) : c \in Range(r.value)
        /\ \A i \in 1..(Len(r.value) - 1) :
             r.value[i].createdAt <= r.value[i + 1].createdAt
        /\ CommentsOf(r.store, r.postId) = <<>> => r.value = <<>>

\* C14 witness: the sheet holds a result with two comments sent at different
\* clock readings.
C14_Witness ==
    /\ sheetComments.op = "fetchComments"
    /\ Len(sheetComments.value) = 2
    /\ sheetComments.value[1].createdAt # sheetComments.value[2].createdAt

\* the user's membership in the reaction's array differs between two values
\* of a post
Flipped(userId, reaction, was, is) ==
    (userId \in Reacting(is, reaction)) # (userId \in Reacting(was, reaction))
\* the last two calls were toggleReaction by different users on the same
\* post, the second issued while the promise of the first was unresolved:
\* the index of the post, else 0
ConcurrentIndex ==
    IF /\ overlapped
       /\ lastCall.op = "toggleReaction" /\ prevCall.op = "toggleReaction"
       /\ lastCall.postId = prevCall.postId
       /\ lastCall.userId # prevCall.userId
    THEN FindIndex(before2.posts, lastCall.postId) ELSE 0

\* C15: when two toggleReaction calls by different users on the same post
\* overlap, both take effect and the post is as after running the two calls
\* one after the other in some order; a user is never in both arrays and the
\* counts are the array sizes in every state.
C15_NoLostUpdate ==
    /\ C1_MutualExclusion
    /\ C2_CountsEqualSetSizes
    /\ ConcurrentIndex # 0 =>
        LET was == before2.posts[ConcurrentIndex]
            is == stubPosts[ConcurrentIndex]
            a == prevCall
            b == lastCall
        IN /\ Flipped(a.userId, a.reaction, was, is)
           /\ Flipped(b.userId, b.reaction, was, is)
           /\ ReactionState(is) \in
                {ReactionState(TogglePost(TogglePost(was, a.userId, a.reaction),
                                          b.userId, b.reaction)),
                 ReactionState(TogglePost(TogglePost(was, b.userId, b.reaction),
                                          a.userId, a.reaction))}

\* C15 witness: two users have toggled like on the same post, the second
\* call issued before the promise of the first resolved.
C15_Witness ==
    /\ ConcurrentIndex # 0
    /\ lastCall.reaction = "like" /\ prevCall.reaction = "like"
    /\ unresolved = 2

\* C16: toggleReaction(P, ...) and addComment(P, ...) leave every field of
\* every stored post other than the one located for P as it was, and leave
\* the comments fetchComments returns for that other post as they were.
C16_OtherPostsUntouched ==
    lastCall.op \in {"toggleReaction", "addComment"} =>
        /\ Len(stubPosts) = Len(before.posts)
        /\ \A i \in DOMAIN before.posts :
             i # FindIndex(before.posts, lastCall.postId) =>
                /\ stubPosts[i] = before.posts[i]
                /\ CommentsOf(stubComments, before.posts[i].id)
                     = CommentsOf(before.comments, before.posts[i].id)

\* C17: whenever no handler of the screen is running, the posts the screen
\* holds are the result of a fetchPosts made on the store as it is now.
C17_ScreenShowsStore ==
    Idle => /\ screenPosts.store = stubPosts
            /\ screenPosts.refs = fetchPosts(stubPosts).refs

\* the fields of a post no operation is meant to write
ImmutableFields(post) ==
    <<post.id, post.authorId, post.authorName, post.title, post.description,
      post.mediaUrl, post.mediaType, post.createdAt>>

\* C18: no step of the screen (toggleReaction, addComment, fetchPosts,
\* fetchComments, createPost) changes the id, authorId, authorName, title,
\* description, mediaUrl, mediaType or createdAt of a stored post or removes
\* a post from the store.
C18_ImmutableFieldsKept ==
    [][\A k \in 1..Len(stubPosts) :
          /\ k <= Len(stubPosts')
          /\ ImmutableFields(Deref(stubPosts', k))
               = ImmutableFields(Deref(stubPosts, k))]_vars

\* C18 witness: a stored post has been liked and commented on, and the
\* screen and the sheet have read it.
C18_Witness ==
    /\ Idle
    /\ sheetComments.op = "fetchComments"
    /\ \E i \in DOMAIN screenPosts.refs :
         LET post == Deref(stubPosts, screenPosts.refs[i])
         IN post.likeCount = 1 /\ post.commentCount = 1

\* C19: toggleReaction changes no post's commentCount and no comment log;
\* addComment changes no post's likedBy, dislikedBy, likeCount or
\* dislikeCount.
C19_ReactionsAndCommentsSeparate ==
    /\ lastCall.op = "toggleReaction" =>
         /\ stubComments = before.comments
         /\ \A i \in DOMAIN before.posts :
              stubPosts[i].commentCount = before.posts[i].commentCount
    /\ lastCall.op = "addComment" =>
         \A i \in DOMAIN before.posts :
              ReactionFields(stubPosts[i]) = ReactionFields(before.posts[i])

\* C19 witness: addComment has just raised the commentCount of a post that
\* holds a reaction.
C19_Witness ==
    /\ lastCall.op = "addComment"
    /\ \E i \in DOMAIN before.posts :
         /\ stubPosts[i].commentCount # before.posts[i].commentCount
         /\ stubPosts[i].likedBy # <<>>

\* C20: every read sets back the flag it set: loading, refreshing and the
\* sheet's loading are each eventually false again.
C20_ReadsFinish ==
    /\ (loading = TRUE) ~> (loading = FALSE)
    /\ (refreshing = TRUE) ~> (refreshing = FALSE)
    /\ (sheetLoading = TRUE) ~> (sheetLoading = FALSE)

\* C20 witness: the loadPosts that onCreated started after a createPost is
\* waiting for fetchPosts with loading set.
C20_Witness ==
    /\ loading
    /\ Running("loadPosts")
    /\ lastCall.op = "createPost"

\* C21: when the posts query fails, fetchUserPosts hands its caller a result
\* that differs from the result of an answered query that found no posts.
C21_FailedReadIsReported ==
    (lastAuth.op = "fetchUserPosts" /\ lastAuth.outcome = "error") =>
        lastAuth.value # [settled |-> "fulfilled", value |-> <<>>]

\* the documents whose email is the one the last request named
SameEmailDocs == {d \in Range(lastAuth.users) : d.data.email = lastAuth.email}

\* C22: an answered emailLogin stores the login and navigates home exactly
\* when a users document holds the normalized email and the given password;
\* it throws NO_ACCOUNT when no document holds the email and WRONG_PASSWORD
\* when none of those that do holds the password, and then leaves
\* AsyncStorage and the screen as they were.
C22_EmailLoginOutcome ==
    (lastAuth.op = "emailLogin" /\ lastAuth.outcome # "error") =>
        LET c == lastAuth.client
            match == \E d \in SameEmailDocs : d.data.password = lastAuth.password
        IN /\ lastAuth.outcome = "ok" <=> match
           /\ lastAuth.outcome = "NO_ACCOUNT" <=> SameEmailDocs = {}
           /\ lastAuth.outcome = "WRONG_PASSWORD"
                <=> (SameEmailDocs # {} /\ ~match)
           /\ match => /\ storage[c]["userLoggedIn"] = "true"
                       /\ storage[c]["userData"].email = lastAuth.email
                       /\ route[c] = "home"
           /\ ~match => /\ storage[c] = lastAuth.storage
                        /\ route[c] = "login"

\* C23: at most one users document with provider "email" holds a given
\* normalized email.
C23_OneEmailAccountPerEmail ==
    \A i, j \in DOMAIN users :
        (/\ i # j
         /\ users[i].data.provider = "email"
         /\ users[j].data.provider = "email")
            => users[i].data.email # users[j].data.email

\* C24: when users/{uid} exists, googleLogin leaves every field the document
\* had with the value it had.
C24_GoogleMergeKeepsFields ==
    (lastAuth.op = "googleLogin"
        /\ DocIndex(lastAuth.users, lastAuth.value) # 0) =>
        LET old == lastAuth.users[DocIndex(lastAuth.users, lastAuth.value)].data
            new == users[DocIndex(users, lastAuth.value)].data
        IN \A k \in DOMAIN old : k \in DOMAIN new /\ new[k] = old[k]

\* C25: every prediction request in flight was started from a formData whose
\* ph is a number within 0..14.
C25_RequestsHaveValidPh ==
    \A i \in DOMAIN inFlight : PhInRange(inFlight[i].formData)

\* C26: a press of Get Recommendation with a pH within range and N, P or K
\* missing has started at most one prediction request: none before the
\* dialog is answered and after Cancel, exactly one after Continue.
C26_OnePressOneRequest ==
    (lastPress.found = "defaults" /\ lastPress.phInRange) =>
        /\ lastPress.requests =< 1
        /\ lastPress.choice \in {"none", "Cancel"} => lastPress.requests = 0
        /\ lastPress.choice = "Continue" => lastPress.requests = 1

\* C27: the stored cropPredictionHistory holds exactly the predictions saved
\* and not since deleted or cleared, newest first.
C27_StoredHistoryIsExact ==
    IdsOf(stored) = expected

\* the calls of setDefaultLocation made by the 15-second timer that await
TimerDefaults(tasks) ==
    Len(SelectSeq(tasks, LAMBDA task : task.kind = "timer"))

\* C28: once selectManualLocation(d) has completed, location and the stored
\* userLocation stay d until another district or "Detect My Location" is
\* pressed: the setDefaultLocation called by the timer that
\* initializeLocation armed does not replace them
C28_ManualSelectionSticks ==
    [][(/\ selected # ""
        /\ location.district = selected
        /\ userLocation.district = selected
        /\ TimerDefaults(awaited') < TimerDefaults(awaited))
       => (/\ location'.district = selected
           /\ userLocation'.district = selected)]_vars

\* C29: with no weather request pending, loading false and weather set,
\* weather.rainfall is the rainfall of the district of location, and
\* handleCropPrediction passes /croppred the rainfall of the district it
\* names
C29_WeatherMatchesLocation ==
    /\ (/\ ~weatherLoading
         /\ \A i \in DOMAIN awaited : awaited[i].step # "weather"
         /\ weather # NoWeather
         /\ location # NoLocation)
        => weather.rainfall = RainfallOf(location.district)
    /\ cropParams # NoParams
        => cropParams.rainfall = RainfallOf(cropParams.district)

\* C30: after mount a location is eventually set and locationLoading is
\* eventually false, whichever of the awaited steps succeed, fail or stay
\* pending
C30_LocationResolved == <>(location # NoLocation /\ ~locationLoading)

====
